---- MODULE Spec2Model ----
(***************************************************************************)
(* Model of the bedrock-mantle command line client (src/main.py): the      *)
(* three commands list-models, chat and info, the two interactive chat     *)
(* loops (Chat Completions and Responses API), the streaming event         *)
(* consumer and the background poll loop.                                  *)
(*                                                                         *)
(* Python values are modelled as tagged records [t, v]: a str is           *)
(* PyStr(<<characters>>), None is PyNone, and an attribute an object does  *)
(* not have (hasattr(...) is False) is Absent.  Text is a sequence of      *)
(* one-character strings so that str.strip, str.lower and += are computed. *)
(***************************************************************************)
EXTENDS Integers, Sequences, FiniteSets, TLC

(***************************************************************************)
(* Bounds of the model.                                                    *)
(***************************************************************************)
\* input lines read at the prompt in one session
MaxLines == 3
\* chunks / events delivered by one stream
MaxChunks == 2
\* retrieve calls of one background poll loop
MaxPolls == 5
\* retrieve calls of one poll loop where the progress markers are counted
MaxMarkedPolls == 10

(***************************************************************************)
(* Python values.                                                          *)
(***************************************************************************)
PyNone == [t |-> "None", v |-> <<>>]
Absent == [t |-> "absent", v |-> <<>>]
PyStr(s) == [t |-> "str", v |-> s]

PyList(items) == [t |-> "list", v |-> items]

\* an object held in an attribute; its own attributes are the fields of v
PyObj(fields) == [t |-> "object", v |-> fields]

\* bool(x): None, "" and [] are falsy
Truthy(x) == x.t \in {"str", "list"} /\ x.v # <<>>

\* hasattr(obj, name), for an attribute value taken from the object
HasAttr(x) == x # Absent

(***************************************************************************)
(* str.strip() and str.lower().                                            *)
(***************************************************************************)
\* the characters str.strip() removes: those for which str.isspace() holds.
\* A character outside ASCII is written as the name of its code point.
Whitespace ==
    { " ", "\t", "\n", "\r", "\f", "", "", "", "", "" } \cup
    { "U+0085", "U+00A0", "U+1680", "U+2000", "U+2001", "U+2002", "U+2003",
      "U+2004", "U+2005", "U+2006", "U+2007", "U+2008", "U+2009", "U+200A",
      "U+2028", "U+2029", "U+202F", "U+205F", "U+3000" }

UpperAlphabet ==
    << "A", "B", "C", "D", "E", "F", "G", "H", "I", "J", "K", "L", "M",
       "N", "O", "P", "Q", "R", "S", "T", "U", "V", "W", "X", "Y", "Z" >>

LowerAlphabet ==
    << "a", "b", "c", "d", "e", "f", "g", "h", "i", "j", "k", "l", "m",
       "n", "o", "p", "q", "r", "s", "t", "u", "v", "w", "x", "y", "z" >>

LowerChar(c) ==
    IF \E i \in 1..Len(UpperAlphabet) : UpperAlphabet[i] = c
    THEN LowerAlphabet[CHOOSE i \in 1..Len(UpperAlphabet) : UpperAlphabet[i] = c]
    ELSE c

\* the bug: the comparison forgets .lower()
Lower_Identity(s) == s

Lower(s) == [i \in 1..Len(s) |-> LowerChar(s[i])]

RECURSIVE LStrip(_)
LStrip(s) ==
    IF s # <<>> /\ Head(s) \in Whitespace THEN LStrip(Tail(s)) ELSE s

RECURSIVE RStrip(_)
RStrip(s) ==
    IF s # <<>> /\ s[Len(s)] \in Whitespace
    THEN RStrip(SubSeq(s, 1, Len(s) - 1))
    ELSE s

Strip(s) == RStrip(LStrip(s))

(***************************************************************************)
(* Command constants.                                                      *)
(***************************************************************************)
EXIT_COMMANDS ==
    { <<"/", "q", "u", "i", "t">>, <<"/", "q">>,
      <<"/", "e", "x", "i", "t">>, <<"/", "e">> }

CLEAR_COMMAND == <<"/", "c", "l", "e", "a", "r">>

\* the bug: a misspelt command string
STATUS_COMMAND_Typo == <<"/", "s", "t", "a", "t">>

STATUS_COMMAND == <<"/", "s", "t", "a", "t", "u", "s">>

(***************************************************************************)
(* Invocation, environment, and what the user and the remote service can   *)
(* supply.                                                                 *)
(***************************************************************************)
Commands == {"list-models", "chat", "info"}

\* --system keeps its default; the text stands for "You are a helpful assistant."
DefaultSystem == <<"S", "y", "s">>

Invocations ==
    [command : Commands, no_stream : BOOLEAN, completions : BOOLEAN,
     background : BOOLEAN, system : {DefaultSystem}]

\* os.environ.get(name): None when unset, else the string (possibly empty)
EnvValues == {PyNone, PyStr(<<>>), PyStr(<<"k">>)}

Environments == [OPENAI_API_KEY : EnvValues, OPENAI_BASE_URL : EnvValues]

\* raw lines typed at the prompt
InputLines ==
    { <<"/", "q", "u", "i", "t">>, <<"/", "Q">>, <<" ", "/", "E", "x", "i", "t">>,
      <<"/", "e", "\r">>,
      <<"/", "c", "l", "e", "a", "r">>, <<"/", "C", "L", "E", "A", "R", "\t">>,
      <<"/", "s", "t", "a", "t", "u", "s">>, <<"\f", "/", "S", "t", "a", "t", "u", "s">>,
      <<" ", "\r">>,
      <<" ", "Q", "u", "i", "t", " ">>, <<"Q", "u", "i", "t">> }

\* content deltas of a chat-completion stream
Deltas == {<<"a">>, <<"b">>}

\* identifiers the remote service may put on a response
ResponseIds == {PyStr(<<"r", "1">>), PyStr(<<"r", "2">>), PyStr(<<>>), PyNone, Absent}

(***************************************************************************)
(* State.  interrupted, calls, request, lines_read, markers, slept,        *)
(* retrieve_arg,                                                           *)
(* consumed, received,                                                     *)
(* pre_messages,                                                           *)
(* pre_previous_response_id, cleared and turns record what the process did *)
(* (its remote calls, its reads, its output); the code keeps no such       *)
(* variables.                                                              *)
(***************************************************************************)
VARIABLES
    argv,                   \* the parsed command line
    environ,                \* os.environ after load_dotenv()
    interrupted,            \* TRUE once a process-level interrupt has arrived
    models,                 \* list_models: what client.models.list() did (Absent before the call)
    extracted,              \* what extract_response_text returned in this turn (Absent: not called)
    pc,                     \* where the process is
    client,                 \* TRUE once OpenAI(...) has been constructed
    exit_code,              \* -1 while running
    error,                  \* message of the ClickException that ended the command
    echoed,                 \* the last line written with click.echo
    lines_read,             \* lines returned by click.prompt so far
    user_input,             \* run_*: user_input
    messages,               \* run_chat_completions: messages
    previous_response_id,   \* run_responses_api: previous_response_id
    response_text,          \* accumulated streamed text
    response_id,            \* identifier captured during the turn
    response,               \* the response object being polled (NoResponse outside the poll loop)
    consumed,               \* chunks / events taken from the stream being read
    received,               \* those chunks / events, in the order they arrived
    poll_count,             \* run_responses_api: poll_count
    markers,                \* "." progress markers printed in this turn
    slept,                  \* seconds spent in time.sleep in this turn
    retrieve_arg,           \* the identifier passed to the latest retrieve call of this turn
    calls,                  \* remote calls issued so far, per endpoint
    request,                \* parameters of the latest create call
    pre_messages,           \* messages when the current turn's line was read
    pre_previous_response_id, \* previous_response_id when the turn's line was read
    cleared,                \* TRUE from a /clear until a turn ends without an exception
    turns                   \* completions: (user line, reply) of each turn that ended
                            \* without an exception since the latest /clear

vars ==
    << argv, environ, interrupted, models, extracted, pc, client, exit_code, error, echoed, lines_read, user_input,
       messages, previous_response_id, response_text, response_id, response,
       consumed, received, poll_count, markers, slept, retrieve_arg, calls, request, pre_messages,
       pre_previous_response_id, cleared, turns >>

turn_vars ==
    << response_text, response_id, response, consumed, received, poll_count, markers, slept, retrieve_arg >>

NoResponse ==
    [id |-> Absent, status |-> Absent, output_text |-> Absent, output |-> Absent]

NoRequest ==
    [api |-> "none", input |-> <<>>, previous_response_id |-> Absent,
     background |-> FALSE, stream |-> FALSE]

NoError == "none"

Init ==
    /\ argv \in Invocations
    /\ environ \in Environments
    /\ interrupted = FALSE
    /\ models = Absent
    /\ extracted = Absent
    /\ pc = "start"
    /\ client = FALSE
    /\ exit_code = -1
    /\ error = NoError
    /\ echoed = "none"
    /\ lines_read = 0
    /\ user_input = <<>>
    /\ messages = <<>>
    /\ previous_response_id = PyNone
    /\ response_text = <<>>
    /\ response_id = PyNone
    /\ response = NoResponse
    /\ consumed = 0
    /\ received = <<>>
    /\ poll_count = 0
    /\ markers = 0
    /\ slept = 0
    /\ retrieve_arg = Absent
    /\ calls = [create |-> 0, retrieve |-> 0, list |-> 0]
    /\ request = NoRequest
    /\ pre_messages = <<>>
    /\ pre_previous_response_id = PyNone
    /\ cleared = FALSE
    /\ turns = <<>>

(***************************************************************************)
(* create_client: the error it raises, or NoError when the client is       *)
(* constructed.                                                            *)
(***************************************************************************)
\* the bug: "is None" tests, which let empty strings through
create_client_NoneOnly(env) ==
    IF env.OPENAI_API_KEY = PyNone THEN "OPENAI_API_KEY is required"
    ELSE IF env.OPENAI_BASE_URL = PyNone THEN "OPENAI_BASE_URL is required"
    ELSE NoError

\* the bug: the base URL is tested before the API key
create_client_UrlFirst(env) ==
    IF ~Truthy(env.OPENAI_BASE_URL) THEN "OPENAI_BASE_URL is required"
    ELSE IF ~Truthy(env.OPENAI_API_KEY) THEN "OPENAI_API_KEY is required"
    ELSE NoError

create_client(env) ==
    IF ~Truthy(env.OPENAI_API_KEY) THEN "OPENAI_API_KEY is required"
    ELSE IF ~Truthy(env.OPENAI_BASE_URL) THEN "OPENAI_BASE_URL is required"
    ELSE NoError

\* the environment variables whose names occur in the text of a message
VariablesNamed(msg) ==
    IF msg = "OPENAI_API_KEY is required" THEN {"OPENAI_API_KEY"}
    ELSE IF msg = "OPENAI_BASE_URL is required" THEN {"OPENAI_BASE_URL"}
    ELSE {}

\* a ClickException leaving the command: click prints it and exits with 1
RaiseClickException(msg) ==
    /\ error' = msg
    /\ exit_code' = 1
    /\ pc' = "done"

(***************************************************************************)
(* info                                                                    *)
(***************************************************************************)
\* the bug: info asks for the credentials like the other commands
Info_NeedsCredentials ==
    /\ pc = "start"
    /\ argv.command = "info"
    /\ IF create_client(environ) # NoError
       THEN /\ RaiseClickException(create_client(environ))
            /\ UNCHANGED echoed
       ELSE /\ echoed' = "Amazon Bedrock Mantle - OpenAI-Compatible APIs"
            /\ exit_code' = 0
            /\ pc' = "done"
            /\ error' = error
    /\ UNCHANGED << argv, environ, interrupted, turns, models, extracted, client, lines_read, user_input, messages,
                    previous_response_id, turn_vars, calls, request, pre_messages,
                    pre_previous_response_id, cleared >>

Info ==
    /\ pc = "start"
    /\ argv.command = "info"
    /\ echoed' = "Amazon Bedrock Mantle - OpenAI-Compatible APIs"
    /\ exit_code' = 0
    /\ pc' = "done"
    /\ UNCHANGED << argv, environ, interrupted, turns, models, extracted, client, error, lines_read, user_input, messages,
                    previous_response_id, turn_vars, calls, request, pre_messages,
                    pre_previous_response_id, cleared >>

(***************************************************************************)
(* list-models                                                             *)
(***************************************************************************)
\* what client.models.list() can do: raise, or return records
ModelRecord(id) == [id |-> id, created |-> Absent, owned_by |-> PyStr(<<"o">>)]

ModelListings ==
    { <<>>, <<ModelRecord(PyStr(<<"m">>))>>,
      <<ModelRecord(PyStr(<<"m">>)), ModelRecord(Absent)>> }

\* the bug: a record that cannot be read is passed over in silence
PrintModels_NeverRaises(data, last) ==
    [last |-> IF data = <<>> THEN last ELSE "Owner", raised |-> FALSE]

\* the loop over models.data: the last line echoed, and whether reading a
\* record raised (model.id of a record without id)
RECURSIVE PrintModels(_, _)
PrintModels(data, last) ==
    IF data = <<>> THEN [last |-> last, raised |-> FALSE]
    ELSE IF ~HasAttr(Head(data).id) THEN [last |-> last, raised |-> TRUE]
    ELSE PrintModels(Tail(data),
                     IF HasAttr(Head(data).owned_by) THEN "Owner"
                     ELSE IF HasAttr(Head(data).created) THEN "Created"
                     ELSE "ID")

ListModels ==
    /\ pc = "start"
    /\ argv.command = "list-models"
    /\ UNCHANGED << argv, environ, interrupted, turns, extracted, lines_read, user_input, messages,
                    previous_response_id, turn_vars, request, pre_messages,
                    pre_previous_response_id, cleared >>
    /\ IF create_client(environ) # NoError
       THEN /\ RaiseClickException(create_client(environ))
            /\ UNCHANGED << models, client, echoed, calls >>
       ELSE /\ client' = TRUE
            /\ calls' = [calls EXCEPT !.list = @ + 1]
            /\ \/ /\ models' = [t |-> "raise", v |-> <<>>]
                  /\ RaiseClickException("Failed to list models")
                  /\ echoed' = "Endpoint"
               \/ \E data \in ModelListings :
                     LET printed == PrintModels(data, "Available Models:") IN
                     /\ models' = PyList(data)
                     /\ echoed' = printed.last
                     /\ IF printed.raised
                        THEN RaiseClickException("Failed to list models")
                        ELSE /\ exit_code' = 0
                             /\ pc' = "done"
                             /\ error' = error

(***************************************************************************)
(* chat: flag check, banner, client, entry into one of the two loops.      *)
(***************************************************************************)
SystemMessage(system) == [role |-> "system", content |-> PyStr(system)]

\* the bug: the combination is rejected only when polling would be needed
InvalidFlags_PollingOnly(a) == a.background /\ a.completions /\ a.no_stream

\* the flag combination chat rejects
InvalidFlags(a) == a.background /\ a.completions

Chat ==
    /\ pc = "start"
    /\ argv.command = "chat"
    /\ UNCHANGED << argv, environ, interrupted, turns, models, extracted, lines_read, user_input, previous_response_id,
                    turn_vars, calls, request, pre_messages, pre_previous_response_id,
                    cleared >>
    /\ IF InvalidFlags(argv)
       THEN /\ RaiseClickException("Background processing is only available with the Responses API")
            /\ UNCHANGED << client, echoed, messages >>
       ELSE /\ echoed' = "Type /quit or /q to exit, /clear to reset conversation"
            /\ IF create_client(environ) # NoError
               THEN /\ RaiseClickException(create_client(environ))
                    /\ UNCHANGED << client, messages >>
               ELSE /\ client' = TRUE
                    /\ messages' = IF argv.completions
                                   THEN <<SystemMessage(argv.system)>>
                                   ELSE messages
                    /\ pc' = "prompt"
                    /\ UNCHANGED << exit_code, error >>

(***************************************************************************)
(* run_chat_completions                                                    *)
(***************************************************************************)
UserMessage(text) == [role |-> "user", content |-> PyStr(text)]

\* the bug: the reply is recorded without its text
AssistantMessage_Empty(content) == [role |-> "assistant", content |-> PyStr(<<>>)]

AssistantMessage(content) == [role |-> "assistant", content |-> content]

\* the bug: two elements are removed
Pop_Two(list) == SubSeq(list, 1, Len(list) - 2)

\* list.pop(): the list without its last element
Pop(list) == SubSeq(list, 1, Len(list) - 1)

\* the bug: the rollback removes the oldest message
CompletionsRollback_PopFirst(msgs) == Tail(msgs)

\* the bug: the failed user message is left in the history
CompletionsRollback_NoPop(msgs) == msgs

\* except Exception: print the error, remove the failed user message
CompletionsRollback(msgs) == Pop(msgs)

\* what the service can return from a non-streaming chat-completion call
Completions ==
    { [choices |-> <<>>] }
    \cup { [choices |-> <<[message |-> [content |-> c]]>>] :
             c \in {PyNone} \cup {PyStr(d) : d \in Deltas} }

\* what a chat-completion stream can deliver as its next chunk
Chunks ==
    { [choices |-> <<>>] }
    \cup { [choices |-> <<[delta |-> [content |-> c]]>>] :
             c \in {PyNone} \cup {PyStr(d) : d \in Deltas} }

\* the bug: messages.clear(), which drops the system message too
ClearedMessages_Empty(system) == <<>>

\* messages after /clear
ClearedMessages(system) == <<SystemMessage(system)>>

\* the bug: the empty line is not recognised
IsEmptyInput_Never(text) == FALSE

\* "if not user_input: continue": the loop goes back to click.prompt, which
\* writes the prompt again
IsEmptyInput(text) == text = <<>>

\* one line read at the prompt and dispatched, up to the remote call
CompletionsReadLine ==
    /\ pc = "prompt"
    /\ argv.completions
    /\ lines_read < MaxLines
    /\ \E line \in InputLines :
         /\ user_input' = Strip(line)
         /\ lines_read' = lines_read + 1
         /\ UNCHANGED << argv, environ, interrupted, models, extracted, client, error, previous_response_id, turn_vars,
                         calls, request, pre_previous_response_id >>
         /\ IF IsEmptyInput(Strip(line))
            THEN /\ echoed' = "You: "
                 /\ UNCHANGED << pc, exit_code, messages, pre_messages, cleared, turns >>
            ELSE IF Lower(Strip(line)) \in EXIT_COMMANDS
            THEN /\ echoed' = "Goodbye!"
                 /\ pc' = "done"
                 /\ exit_code' = 0
                 /\ UNCHANGED << messages, pre_messages, cleared, turns >>
            ELSE IF Lower(Strip(line)) = CLEAR_COMMAND
            THEN /\ messages' = ClearedMessages(argv.system)
                 /\ echoed' = "Conversation cleared."
                 /\ cleared' = TRUE
                 /\ turns' = <<>>
                 /\ UNCHANGED << pc, exit_code, pre_messages >>
            ELSE IF Lower(Strip(line)) = STATUS_COMMAND
            THEN /\ echoed' = "Messages in history"
                 /\ UNCHANGED << pc, exit_code, messages, pre_messages, cleared, turns >>
            ELSE /\ pre_messages' = messages
                 /\ messages' = Append(messages, UserMessage(Strip(line)))
                 /\ echoed' = "Assistant: "
                 /\ pc' = "cc_create"
                 /\ UNCHANGED << exit_code, cleared, turns >>

\* the turn failed: report, roll back, next prompt
CompletionsFail ==
    /\ echoed' = "Error"
    /\ messages' = CompletionsRollback(messages)
    /\ pc' = "prompt"
    /\ UNCHANGED << cleared, turns >>

\* the arguments of client.chat.completions.create
CompletionsRequest(msgs, stream) ==
    [api |-> "chat.completions", input |-> msgs,
     previous_response_id |-> Absent, background |-> FALSE,
     stream |-> stream]

\* client.chat.completions.create(...) and, without streaming, the rest of the turn
CompletionsCreate ==
    /\ pc = "cc_create"
    /\ calls' = [calls EXCEPT !.create = @ + 1]
    /\ request' = CompletionsRequest(messages, ~argv.no_stream)
    /\ UNCHANGED << argv, environ, interrupted, models, extracted, client, exit_code, error, lines_read, user_input,
                    previous_response_id, response_id, response, poll_count, markers, slept, retrieve_arg,
                    pre_messages, pre_previous_response_id >>
    /\ \/ /\ CompletionsFail
          /\ response_text' = IF argv.no_stream THEN response_text ELSE <<>>
          /\ UNCHANGED << consumed, received >>
       \/ /\ ~argv.no_stream
          /\ response_text' = <<>>
          /\ consumed' = 0
          /\ received' = <<>>
          /\ pc' = "cc_stream"
          /\ UNCHANGED << echoed, messages, cleared, turns >>
       \/ /\ argv.no_stream
          /\ UNCHANGED << response_text, consumed, received >>
          /\ \E r \in Completions :
               IF r.choices = <<>>
               THEN CompletionsFail
               ELSE /\ echoed' = "reply"
                    /\ messages' = Append(messages,
                                          AssistantMessage(r.choices[1].message.content))
                    /\ pc' = "prompt"
                    /\ cleared' = FALSE
                    /\ turns' = Append(turns, [user |-> user_input,
                                                reply |-> r.choices[1].message.content])

\* the bug: the new content is put in front of the text
AccumulateContent_Prepend(text, content) ==
    IF content # PyNone THEN content.v \o text ELSE text

\* response_text after a chunk: "if content is not None: response_text += content"
AccumulateContent(text, content) ==
    IF content # PyNone THEN text \o content.v ELSE text

\* one step of "for chunk in stream_response", or its end
CompletionsChunk ==
    /\ pc = "cc_stream"
    /\ UNCHANGED << argv, environ, interrupted, models, extracted, client, exit_code, error, lines_read, user_input,
                    previous_response_id, response_id, response, poll_count, markers, slept, retrieve_arg,
                    calls, request, pre_messages, pre_previous_response_id >>
    /\ \/ /\ CompletionsFail
          /\ consumed' = 0
          /\ received' = <<>>
          /\ UNCHANGED response_text
       \/ /\ consumed < MaxChunks
          /\ \E chunk \in Chunks :
               IF chunk.choices = <<>>
               THEN /\ CompletionsFail
                    /\ consumed' = 0
                    /\ received' = <<>>
                    /\ UNCHANGED response_text
               ELSE /\ consumed' = consumed + 1
                    /\ received' = Append(received, chunk)
                    /\ response_text' =
                         AccumulateContent(response_text, chunk.choices[1].delta.content)
                    /\ echoed' = IF chunk.choices[1].delta.content # PyNone
                                 THEN "content" ELSE echoed
                    /\ UNCHANGED << pc, messages, cleared, turns >>
       \/ /\ echoed' = "reply"
          /\ messages' = Append(messages, AssistantMessage(PyStr(response_text)))
          /\ pc' = "prompt"
          /\ cleared' = FALSE
          /\ turns' = Append(turns, [user |-> user_input, reply |-> PyStr(response_text)])
          /\ consumed' = 0
          /\ received' = <<>>
          /\ UNCHANGED response_text

(***************************************************************************)
(* process_streaming_events                                                *)
(***************************************************************************)
TYPE_DELTA == PyStr(<<"response.output_text.delta">>)

TYPE_COMPLETED == PyStr(<<"response.completed">>)

TYPE_QUEUED == PyStr(<<"response.queued">>)

TYPE_IN_PROGRESS == PyStr(<<"response.in_progress">>)

TYPE_OTHER == PyStr(<<"response.created">>)

Event(type, delta, resp, id) == [type |-> type, delta |-> delta, response |-> resp, id |-> id]

\* events a Responses API stream can deliver
Events ==
    { Event(TYPE_DELTA, PyStr(d), Absent, Absent) : d \in Deltas }
    \cup { Event(TYPE_DELTA, Absent, Absent, Absent) }
    \cup { Event(TYPE_COMPLETED, Absent, PyObj([id |-> i]), Absent) : i \in ResponseIds }
    \cup { Event(TYPE_COMPLETED, Absent, Absent, PyStr(<<"r", "2">>)) }
    \cup { Event(TYPE_QUEUED, Absent, Absent, Absent),
           Event(TYPE_IN_PROGRESS, Absent, Absent, Absent),
           Event(TYPE_OTHER, PyStr(<<"b">>), Absent, PyStr(<<"r", "2">>)),
           Event(Absent, PyStr(<<"b">>), Absent, PyStr(<<"r", "2">>)),
           Event(Absent, Absent, Absent, PyStr(<<"r", "1">>)),
           Event(Absent, Absent, Absent, Absent) }

\* the bug: an identifier, once captured, is never replaced
ProcessEvent_FirstIdWins(event, text, id, echo) ==
    IF HasAttr(event.type)
    THEN IF event.type = TYPE_DELTA /\ HasAttr(event.delta)
         THEN [text |-> text \o event.delta.v, id |-> id, echo |-> "delta"]
         ELSE IF /\ event.type = TYPE_COMPLETED
                 /\ HasAttr(event.response)
                 /\ HasAttr(event.response.v.id)
                 /\ id = PyNone
         THEN [text |-> text, id |-> event.response.v.id, echo |-> echo]
         ELSE IF event.type = TYPE_QUEUED
         THEN [text |-> text, id |-> id, echo |-> "[Queued...]"]
         ELSE IF event.type = TYPE_IN_PROGRESS
         THEN [text |-> text, id |-> id, echo |-> "[Processing...]"]
         ELSE [text |-> text, id |-> id, echo |-> echo]
    ELSE IF HasAttr(event.delta)
    THEN [text |-> text \o event.delta.v, id |-> id, echo |-> "delta"]
    ELSE IF HasAttr(event.id) /\ id = PyNone
    THEN [text |-> text, id |-> event.id, echo |-> echo]
    ELSE [text |-> text, id |-> id, echo |-> echo]

\* the bug: the fallback branches also take the events whose type is not
\* one of the four known ones
ProcessEvent_FallbackForUnknownType(event, text, id, echo) ==
    IF event.type = TYPE_DELTA
    THEN IF HasAttr(event.delta)
         THEN [text |-> text \o event.delta.v, id |-> id, echo |-> "delta"]
         ELSE [text |-> text, id |-> id, echo |-> echo]
    ELSE IF event.type = TYPE_COMPLETED
    THEN IF HasAttr(event.response) /\ HasAttr(event.response.v.id)
         THEN [text |-> text, id |-> event.response.v.id, echo |-> echo]
         ELSE [text |-> text, id |-> id, echo |-> echo]
    ELSE IF event.type = TYPE_QUEUED
    THEN [text |-> text, id |-> id, echo |-> "[Queued...]"]
    ELSE IF event.type = TYPE_IN_PROGRESS
    THEN [text |-> text, id |-> id, echo |-> "[Processing...]"]
    ELSE IF HasAttr(event.delta)
    THEN [text |-> text \o event.delta.v, id |-> id, echo |-> "delta"]
    ELSE IF HasAttr(event.id)
    THEN [text |-> text, id |-> event.id, echo |-> echo]
    ELSE [text |-> text, id |-> id, echo |-> echo]

\* the body of "for event in stream_response": the new (response_text, response_id, echo)
ProcessEvent(event, text, id, echo) ==
    IF HasAttr(event.type)
    THEN IF event.type = TYPE_DELTA
         THEN IF HasAttr(event.delta)
              THEN [text |-> text \o event.delta.v, id |-> id, echo |-> "delta"]
              ELSE [text |-> text, id |-> id, echo |-> echo]
         ELSE IF event.type = TYPE_COMPLETED
         THEN IF HasAttr(event.response) /\ HasAttr(event.response.v.id)
              THEN [text |-> text, id |-> event.response.v.id, echo |-> echo]
              ELSE [text |-> text, id |-> id, echo |-> echo]
         ELSE IF event.type = TYPE_QUEUED
         THEN [text |-> text, id |-> id, echo |-> "[Queued...]"]
         ELSE IF event.type = TYPE_IN_PROGRESS
         THEN [text |-> text, id |-> id, echo |-> "[Processing...]"]
         ELSE [text |-> text, id |-> id, echo |-> echo]
    ELSE IF HasAttr(event.delta)
    THEN [text |-> text \o event.delta.v, id |-> id, echo |-> "delta"]
    ELSE IF HasAttr(event.id)
    THEN [text |-> text, id |-> event.id, echo |-> echo]
    ELSE [text |-> text, id |-> id, echo |-> echo]

(***************************************************************************)
(* extract_response_text                                                   *)
(***************************************************************************)
\* the value of an expression that raised
Raised == [t |-> "raise", v |-> <<>>]

\* the bug: "for content in output.content or []", which passes over a
\* content that cannot be iterated
Iterable_Anything(x) == TRUE

\* "for content in x": a list and a string can be iterated; None and a plain
\* object cannot, and the for statement raises TypeError
Iterable(x) == x.t \in {"list", "str"}

\* what the loop over an iterable content visits: the elements of a list, the
\* characters of a string (which have no text attribute)
PartsOf(x) == IF x.t = "list" THEN x.v ELSE [i \in 1..Len(x.v) |-> [text |-> Absent]]

\* content.text of the parts of one output item's content that have the attribute
RECURSIVE ContentTexts(_)
ContentTexts(parts) ==
    IF parts = <<>> THEN <<>>
    ELSE (IF HasAttr(Head(parts).text) THEN <<Head(parts).text>> ELSE <<>>)
         \o ContentTexts(Tail(parts))

\* one of the inner for statements raises: an item has a content that cannot
\* be iterated
LoopRaises(items) ==
    \E i \in 1..Len(items) : HasAttr(items[i].content) /\ ~Iterable(items[i].content)

\* text_parts after the two nested loops, when none of them raised
RECURSIVE TextParts(_)
TextParts(items) ==
    IF items = <<>> THEN <<>>
    ELSE (IF HasAttr(Head(items).content) THEN ContentTexts(PartsOf(Head(items).content))
          ELSE <<>>)
         \o TextParts(Tail(items))

\* the characters of "".join(texts), every element a string
RECURSIVE Concat(_)
Concat(texts) == IF texts = <<>> THEN <<>> ELSE Head(texts).v \o Concat(Tail(texts))

\* "".join(text_parts): TypeError when an element is not a string
Join(texts) ==
    IF \A i \in 1..Len(texts) : texts[i].t = "str" THEN PyStr(Concat(texts)) ELSE Raised

\* repr of a list: "[" item ", " item ... "]", every item an opaque object repr
RECURSIVE ReprItems(_)
ReprItems(items) ==
    IF items = <<>> THEN <<>>
    ELSE IF Len(items) = 1 THEN <<"<object>">>
    ELSE <<"<object>", ",", " ">> \o ReprItems(Tail(items))

\* str(x) for None and for a list
StrOf(x) ==
    IF x = PyNone THEN PyStr(<<"N", "o", "n", "e">>)
    ELSE PyStr(<<"[">> \o ReprItems(x.v) \o <<"]">>)

\* the bug: "if response.output_text:", which passes over None and ""
extract_response_text_IfTruthy(resp) ==
    IF HasAttr(resp.output_text) /\ Truthy(resp.output_text) THEN resp.output_text
    ELSE IF ~HasAttr(resp.output) THEN Raised
    ELSE IF ~Truthy(resp.output) THEN StrOf(resp.output)
    ELSE IF LoopRaises(resp.output.v) THEN Raised
    ELSE IF TextParts(resp.output.v) # <<>> THEN Join(TextParts(resp.output.v))
    ELSE StrOf(resp.output)

extract_response_text(resp) ==
    IF HasAttr(resp.output_text) THEN resp.output_text
    ELSE IF ~HasAttr(resp.output) THEN Raised
    ELSE IF ~Truthy(resp.output) THEN StrOf(resp.output)
    ELSE IF LoopRaises(resp.output.v) THEN Raised
    ELSE IF TextParts(resp.output.v) # <<>> THEN Join(TextParts(resp.output.v))
    ELSE StrOf(resp.output)

(***************************************************************************)
(* Responses the service can return.                                       *)
(***************************************************************************)
Part(text) == [text |-> text]

Item(content) == [content |-> content]

\* the (output_text, output) shapes of a response object
Bodies ==
    { [output_text |-> PyStr(<<"a">>), output |-> Absent],
      [output_text |-> PyNone, output |-> PyList(<<>>)],
      [output_text |-> Absent,
       output |-> PyList(<<Item(PyList(<<Part(PyStr(<<"a">>)), Part(Absent)>>)),
                           Item(Absent),
                           Item(PyList(<<Part(PyStr(<<"b">>))>>))>>)],
      [output_text |-> Absent, output |-> PyList(<<Item(Absent)>>)],
      [output_text |-> Absent, output |-> PyList(<<Item(PyNone)>>)],
      [output_text |-> Absent, output |-> PyList(<<>>)],
      [output_text |-> Absent, output |-> PyNone],
      [output_text |-> Absent, output |-> Absent] }

QUEUED == PyStr(<<"queued">>)

IN_PROGRESS == PyStr(<<"in_progress">>)

COMPLETED == PyStr(<<"completed">>)

FAILED == PyStr(<<"failed">>)

CANCELLED == PyStr(<<"cancelled">>)

Statuses == {QUEUED, IN_PROGRESS, COMPLETED, FAILED, CANCELLED, PyStr(<<"incomplete">>), Absent}

Response(id, status, body) ==
    [id |-> id, status |-> status, output_text |-> body.output_text,
     output |-> body.output]

\* a foreground response carries no status the loop reads
ForegroundResponses == { Response(i, COMPLETED, b) : i \in ResponseIds, b \in Bodies }

\* a job that has not completed has produced no output yet
PendingBody == [output_text |-> Absent, output |-> PyList(<<>>)]

BackgroundResponses ==
    { Response(i, st, PendingBody) : i \in ResponseIds, st \in Statuses \ {COMPLETED} }
    \cup { Response(i, COMPLETED, b) : i \in ResponseIds, b \in Bodies }

(***************************************************************************)
(* run_responses_api                                                       *)
(***************************************************************************)
\* request_params as passed to client.responses.create
\* the bug: the background flag is left out of a streaming request
BuildRequest_BackgroundOnlyWhenPolling(prev, system, text, background, stream) ==
    [api |-> "responses",
     input |-> (IF prev = PyNone THEN <<SystemMessage(system)>> ELSE <<>>)
               \o <<UserMessage(text)>>,
     previous_response_id |-> IF Truthy(prev) THEN prev ELSE Absent,
     background |-> background /\ ~stream,
     stream |-> stream]

BuildRequest(prev, system, text, background, stream) ==
    [api |-> "responses",
     input |-> (IF prev = PyNone THEN <<SystemMessage(system)>> ELSE <<>>)
               \o <<UserMessage(text)>>,
     previous_response_id |-> IF Truthy(prev) THEN prev ELSE Absent,
     background |-> background,
     stream |-> stream]

\* the bug: the identifier is reset to "" instead of None
ClearedResponseId_EmptyString == PyStr(<<>>)

\* previous_response_id after /clear
ClearedResponseId == PyNone

\* one line read at the prompt and dispatched, up to the remote call
ResponsesReadLine ==
    /\ pc = "prompt"
    /\ ~argv.completions
    /\ lines_read < MaxLines
    /\ \E line \in InputLines :
         /\ user_input' = Strip(line)
         /\ lines_read' = lines_read + 1
         /\ extracted' = Absent
         /\ UNCHANGED << argv, environ, interrupted, turns, models, client, error, messages, turn_vars, calls,
                         request, pre_messages >>
         /\ IF IsEmptyInput(Strip(line))
            THEN /\ echoed' = "You: "
                 /\ UNCHANGED << pc, exit_code, previous_response_id,
                                 pre_previous_response_id, cleared >>
            ELSE IF Lower(Strip(line)) \in EXIT_COMMANDS
            THEN /\ echoed' = "Goodbye!"
                 /\ pc' = "done"
                 /\ exit_code' = 0
                 /\ UNCHANGED << previous_response_id, pre_previous_response_id, cleared >>
            ELSE IF Lower(Strip(line)) = CLEAR_COMMAND
            THEN /\ previous_response_id' = ClearedResponseId
                 /\ echoed' = "Conversation cleared (stateful context reset)."
                 /\ cleared' = TRUE
                 /\ UNCHANGED << pc, exit_code, pre_previous_response_id >>
            ELSE IF Lower(Strip(line)) = STATUS_COMMAND
            THEN /\ echoed' = "Previous response ID"
                 /\ UNCHANGED << pc, exit_code, previous_response_id,
                                 pre_previous_response_id, cleared >>
            ELSE /\ pre_previous_response_id' = previous_response_id
                 /\ echoed' = "Assistant: "
                 /\ pc' = "r_create"
                 /\ UNCHANGED << exit_code, previous_response_id, cleared >>

\* the bug: the identifier is stored as soon as it is known, before the turn succeeds
ResponsesFail_StoresId ==
    /\ echoed' = "Error"
    /\ pc' = "prompt"
    /\ previous_response_id' = IF Truthy(response_id) THEN response_id
                                ELSE previous_response_id
    /\ UNCHANGED cleared

\* the bug: after the error the request is sent again
ResponsesFail_Retries ==
    /\ echoed' = "Error"
    /\ pc' = "r_create"
    /\ UNCHANGED << previous_response_id, cleared >>

\* except Exception: print the error, next prompt
ResponsesFail ==
    /\ echoed' = "Error"
    /\ pc' = "prompt"
    /\ UNCHANGED << previous_response_id, cleared >>

\* previous_response_id after a stream that captured id
AfterStream(prev, id) == IF Truthy(id) THEN id ELSE prev

\* the bug: the identifier is stored whatever the final status
AfterPoll_Always(prev, id, status) == id

\* the bug: only a failed job keeps the identifier from being stored
AfterPoll_UnlessFailed(prev, id, status) == IF status # FAILED THEN id ELSE prev

\* previous_response_id after the poll loop ended with this status
AfterPoll(prev, id, status) == IF status = COMPLETED THEN id ELSE prev

\* the line printed for the final status of a background job
FinalNotice(status) ==
    IF status = COMPLETED THEN "reply"
    ELSE IF status = FAILED THEN "[Background task failed]"
    ELSE IF status = CANCELLED THEN "[Background task was cancelled]"
    ELSE "[Unexpected status]"

\* the request is built and client.responses.create(...) is called; without
\* streaming and without background the rest of the turn follows
\* the end of a foreground non-streaming turn, once the response is there:
\* print the extracted text and store the identifier, or report the exception
ForegroundReply(r) ==
    /\ extracted' = extract_response_text(r)
    /\ IF extract_response_text(r) = Raised \/ ~HasAttr(r.id)
       THEN /\ ResponsesFail
            /\ UNCHANGED response_id
       ELSE /\ echoed' = "reply"
            /\ response_id' = r.id
            /\ previous_response_id' = r.id
            /\ pc' = "prompt"
            /\ cleared' = FALSE

ResponsesCreate ==
    /\ pc = "r_create"
    /\ calls' = [calls EXCEPT !.create = @ + 1]
    /\ request' = BuildRequest(previous_response_id, argv.system, user_input,
                               argv.background, ~argv.no_stream)
    /\ UNCHANGED << argv, environ, interrupted, turns, models, client, exit_code, error, lines_read, user_input,
                    messages, pre_messages, pre_previous_response_id >>
    /\ \/ /\ ResponsesFail
          /\ UNCHANGED << turn_vars, extracted >>
       \/ /\ ~argv.no_stream
          /\ response_text' = <<>>
          /\ response_id' = PyNone
          /\ consumed' = 0
          /\ received' = <<>>
          /\ pc' = "r_stream"
          /\ UNCHANGED << echoed, previous_response_id, response, poll_count, markers, slept, retrieve_arg,
                          cleared, extracted >>
       \/ /\ argv.no_stream
          /\ argv.background
          /\ \E r \in BackgroundResponses :
               /\ UNCHANGED << response_text, consumed, received, extracted >>
               /\ IF ~HasAttr(r.id)
                  THEN /\ ResponsesFail
                       /\ UNCHANGED << response, response_id, poll_count, markers, slept, retrieve_arg >>
                  ELSE /\ response' = r
                       /\ response_id' = r.id
                       /\ poll_count' = 0
                       /\ markers' = 0
                       /\ slept' = 0
                       /\ retrieve_arg' = Absent
                       /\ echoed' = "[Background processing started...]"
                       /\ pc' = "r_poll"
                       /\ UNCHANGED << previous_response_id, cleared >>
       \/ /\ argv.no_stream
          /\ ~argv.background
          /\ \E r \in ForegroundResponses :
               /\ UNCHANGED << response_text, response, consumed, received, poll_count, markers, slept, retrieve_arg >>
               /\ ForegroundReply(r)

\* one step of the loop of process_streaming_events, or its end and the
\* identifier update that follows it
ResponsesEvent ==
    /\ pc = "r_stream"
    /\ UNCHANGED << argv, environ, interrupted, turns, models, extracted, client, exit_code, error, lines_read, user_input,
                    messages, response, poll_count, markers, slept, retrieve_arg, calls, request,
                    pre_messages, pre_previous_response_id >>
    /\ \/ /\ ResponsesFail
          /\ consumed' = 0
          /\ received' = <<>>
          /\ UNCHANGED << response_text, response_id >>
       \/ /\ consumed < MaxChunks
          /\ consumed' = consumed + 1
          /\ \E event \in Events :
               LET after == ProcessEvent(event, response_text, response_id, echoed) IN
               /\ received' = Append(received, event)
               /\ response_text' = after.text
               /\ response_id' = after.id
               /\ echoed' = after.echo
               /\ UNCHANGED << pc, previous_response_id, cleared >>
       \/ /\ echoed' = "reply"
          /\ previous_response_id' = AfterStream(previous_response_id, response_id)
          /\ pc' = "prompt"
          /\ cleared' = FALSE
          /\ consumed' = 0
          /\ received' = <<>>
          /\ UNCHANGED << response_text, response_id >>

\* time.sleep(1)
POLL_INTERVAL == 1

\* the bug: the job is fetched by the id of the response polled last
RetrieveArgument_LatestResponse(created_id, latest) == latest.id

\* client.responses.retrieve(response_id): the id stored after the create call
RetrieveArgument(created_id, latest) == created_id

\* the bug: the loop gives up after three polls
LoopContinues_ThreePolls(status, count) ==
    status \in {QUEUED, IN_PROGRESS} /\ count < 3

\* while response.status in ["queued", "in_progress"]
LoopContinues(status, count) == status \in {QUEUED, IN_PROGRESS}

\* one iteration of the poll loop: sleep, count, marker, retrieve
MarkerDue_OnlyFifth(count) == count = 5

\* the test that prints a progress marker after the counter was incremented
MarkerDue(count) == count % 5 = 0

\* one iteration of the poll loop, in a loop of at most `limit` iterations
ResponsesPollUpTo(limit) ==
    /\ pc = "r_poll"
    /\ LoopContinues(response.status, poll_count)
    /\ poll_count < limit
    /\ poll_count' = poll_count + 1
    /\ markers' = IF MarkerDue(poll_count + 1) THEN markers + 1 ELSE markers
    /\ slept' = slept + POLL_INTERVAL
    /\ calls' = [calls EXCEPT !.retrieve = @ + 1]
    /\ retrieve_arg' = RetrieveArgument(response_id, response)
    /\ UNCHANGED << argv, environ, interrupted, turns, models, extracted, client, exit_code, error, lines_read, user_input,
                    messages, response_text, response_id, consumed, received, request,
                    pre_messages, pre_previous_response_id >>
    /\ \/ /\ ResponsesFail
          /\ response' = NoResponse
       \/ /\ \E r \in BackgroundResponses : response' = r
          /\ echoed' = IF MarkerDue(poll_count + 1) THEN "." ELSE echoed
          /\ UNCHANGED << pc, previous_response_id, cleared >>

ResponsesPoll == ResponsesPollUpTo(MaxPolls)

\* the loop condition is false (or cannot be evaluated): the final status is handled
ResponsesPollDone ==
    /\ pc = "r_poll"
    /\ ~LoopContinues(response.status, poll_count)
    /\ response' = NoResponse
    /\ UNCHANGED << argv, environ, interrupted, turns, models, client, exit_code, error, lines_read, user_input,
                    messages, response_text, response_id, consumed, received, poll_count, markers, slept, retrieve_arg,
                    calls, request, pre_messages, pre_previous_response_id >>
    /\ extracted' = IF response.status = COMPLETED THEN extract_response_text(response)
                    ELSE extracted
    /\ IF ~HasAttr(response.status)
       THEN ResponsesFail
       ELSE IF response.status = COMPLETED /\ extract_response_text(response) = Raised
       THEN ResponsesFail
       ELSE /\ echoed' = FinalNotice(response.status)
            /\ previous_response_id' =
                   AfterPoll(previous_response_id, response_id, response.status)
            /\ pc' = "prompt"
            /\ cleared' = FALSE

(***************************************************************************)
(* The input ends while click.prompt waits for a line.  click.prompt       *)
(* catches the EOFError of the read and raises click.Abort in its place, a *)
(* RuntimeError that is not a ClickException.  The handler around the      *)
(* prompt catches EOFError only, so the exception leaves the loop and is   *)
(* handled in chat.                                                        *)
(***************************************************************************)
PromptExceptionAtEndOfInput == "Abort"

\* "except EOFError: break" around the prompt
LoopHandlerCatches(exc) == exc = "EOFError"

\* the handlers of chat, in order: what the exception becomes
ChatHandler(exc) ==
    IF exc = "KeyboardInterrupt" THEN "Chat session ended."
    ELSE IF exc = "ClickException" THEN "reraise"
    ELSE "Chat error"

EndOfInput ==
    /\ pc = "prompt"
    /\ echoed' = "You: "
    /\ IF LoopHandlerCatches(PromptExceptionAtEndOfInput)
       THEN /\ pc' = "done"
            /\ exit_code' = 0
            /\ error' = error
       ELSE IF ChatHandler(PromptExceptionAtEndOfInput) = "Chat session ended."
       THEN /\ pc' = "done"
            /\ exit_code' = 0
            /\ error' = error
       ELSE RaiseClickException(ChatHandler(PromptExceptionAtEndOfInput))
    /\ UNCHANGED << argv, environ, interrupted, turns, models, extracted, client, lines_read, user_input, messages,
                    previous_response_id, turn_vars, calls, request, pre_messages,
                    pre_previous_response_id, cleared >>

(***************************************************************************)
(* A process-level interrupt (Ctrl-C) during a chat session.  While        *)
(* click.prompt waits for a line it catches the KeyboardInterrupt and      *)
(* raises click.Abort in its place, as it does at the end of the input.    *)
(* Anywhere else in a turn (remote call, stream, sleep) the                *)
(* KeyboardInterrupt itself is raised: "except Exception" of the turn does *)
(* not catch it, and it is handled in chat.  Before the stream or the      *)
(* reply of a turn has arrived, the interrupt comes either before the      *)
(* create call is issued or while the process waits in it, the request     *)
(* sent.  The locals of the loop are gone once the exception has left it.  *)
(***************************************************************************)
PromptExceptionAtInterrupt == "Abort"

\* "except Exception" around a turn: KeyboardInterrupt is not an Exception
TurnHandlerCatches(exc) == exc # "KeyboardInterrupt"

Interrupt ==
    /\ argv.command = "chat"
    /\ pc \in {"prompt", "cc_create", "cc_stream", "r_create", "r_stream", "r_poll"}
    /\ interrupted' = TRUE
    /\ response_text' = <<>>
    /\ response_id' = PyNone
    /\ response' = NoResponse
    /\ consumed' = 0
    /\ received' = <<>>
    /\ poll_count' = 0
    /\ markers' = 0
    /\ slept' = 0
    /\ retrieve_arg' = Absent
    /\ extracted' = Absent
    /\ UNCHANGED << argv, environ, turns, models, client, lines_read, user_input,
                    pre_messages, pre_previous_response_id >>
    /\ \/ UNCHANGED << calls, request >>
       \/ /\ pc \in {"cc_create", "r_create"}
          /\ calls' = [calls EXCEPT !.create = @ + 1]
          /\ request' = IF argv.completions
                        THEN CompletionsRequest(messages, ~argv.no_stream)
                        ELSE BuildRequest(previous_response_id, argv.system, user_input,
                                          argv.background, ~argv.no_stream)
    /\ IF pc = "prompt"
       THEN /\ echoed' = "You: "
            /\ UNCHANGED << messages, previous_response_id, cleared >>
            /\ IF LoopHandlerCatches(PromptExceptionAtInterrupt)
               THEN /\ pc' = "done"
                    /\ exit_code' = 0
                    /\ error' = error
               ELSE RaiseClickException(ChatHandler(PromptExceptionAtInterrupt))
       ELSE IF TurnHandlerCatches("KeyboardInterrupt")
       THEN /\ UNCHANGED << exit_code, error >>
            /\ IF argv.completions
               THEN CompletionsFail /\ UNCHANGED previous_response_id
               ELSE ResponsesFail /\ UNCHANGED messages
       ELSE /\ echoed' = ChatHandler("KeyboardInterrupt")
            /\ pc' = "done"
            /\ exit_code' = 0
            /\ UNCHANGED << error, messages, previous_response_id, cleared >>

\* An interrupt while list_models waits in client.models.list(): no handler
\* of list_models catches the KeyboardInterrupt, and the command line runner
\* ends the process with "Aborted!" and exit code 1.
InterruptListModels ==
    /\ pc = "start"
    /\ argv.command = "list-models"
    /\ create_client(environ) = NoError
    /\ interrupted' = TRUE
    /\ client' = TRUE
    /\ calls' = [calls EXCEPT !.list = @ + 1]
    /\ echoed' = "Aborted!"
    /\ exit_code' = 1
    /\ pc' = "done"
    /\ UNCHANGED << argv, environ, turns, models, extracted, error, lines_read, user_input, messages,
                    previous_response_id, turn_vars, request, pre_messages,
                    pre_previous_response_id, cleared >>

Next ==
    \/ Info
    \/ ListModels
    \/ Chat
    \/ CompletionsReadLine
    \/ CompletionsCreate
    \/ CompletionsChunk
    \/ ResponsesReadLine
    \/ ResponsesCreate
    \/ ResponsesEvent
    \/ ResponsesPoll
    \/ ResponsesPollDone
    \/ EndOfInput
    \/ Interrupt
    \/ InterruptListModels

Spec == Init /\ [][Next]_vars

(***************************************************************************)
(* extract_response_text on its own: the response of a foreground          *)
(* non-streaming turn is drawn from every shape of output_text and output  *)
(* up to MaxItems output items, and the turn is finished from there.       *)
(***************************************************************************)
MaxItems == 2

OutputTexts == {Absent, PyNone, PyStr(<<>>), PyStr(<<"a">>)}

\* the content of an output item: no attribute, None, an object that is no
\* sequence, a string, or a list of parts whose text is a string, None or missing
Contents ==
    { Absent,
      PyNone,
      PyObj(<<>>),
      PyStr(<<"a">>),
      PyList(<<>>),
      PyList(<<Part(PyStr(<<"a">>))>>),
      PyList(<<Part(Absent)>>),
      PyList(<<Part(PyNone)>>),
      PyList(<<Part(PyStr(<<"b">>)), Part(PyStr(<<>>))>>),
      PyList(<<Part(PyStr(<<"a">>)), Part(PyNone)>>),
      PyList(<<Part(Absent), Part(PyStr(<<"a">>))>>) }

Outputs ==
    {Absent, PyNone}
    \cup UNION { { PyList(items) : items \in [1..n -> {Item(c) : c \in Contents}] } :
                   n \in 0..MaxItems }

ExtractInputs ==
    { Response(PyStr(<<"r", "1">>), COMPLETED, [output_text |-> t, output |-> o]) :
        t \in OutputTexts, o \in Outputs }

InitExtract ==
    /\ argv = [command |-> "chat", no_stream |-> TRUE, completions |-> FALSE,
               background |-> FALSE, system |-> DefaultSystem]
    /\ environ = [OPENAI_API_KEY |-> PyStr(<<"k">>), OPENAI_BASE_URL |-> PyStr(<<"k">>)]
    /\ interrupted = FALSE
    /\ models = Absent
    /\ extracted = Absent
    /\ pc = "r_reply"
    /\ client = TRUE
    /\ exit_code = -1
    /\ error = NoError
    /\ echoed = "Assistant: "
    /\ lines_read = 1
    /\ user_input = <<"Q", "u", "i", "t">>
    /\ messages = <<>>
    /\ previous_response_id = PyNone
    /\ response_text = <<>>
    /\ response_id = PyNone
    /\ response \in ExtractInputs
    /\ consumed = 0
    /\ received = <<>>
    /\ poll_count = 0
    /\ markers = 0
    /\ slept = 0
    /\ retrieve_arg = Absent
    /\ calls = [create |-> 1, retrieve |-> 0, list |-> 0]
    /\ request = BuildRequest(PyNone, DefaultSystem, <<"Q", "u", "i", "t">>, FALSE, FALSE)
    /\ pre_messages = <<>>
    /\ pre_previous_response_id = PyNone
    /\ cleared = FALSE
    /\ turns = <<>>

\* the turn is finished with the response that was received
ReplyReceived ==
    /\ pc = "r_reply"
    /\ ForegroundReply(response)
    /\ UNCHANGED << argv, environ, interrupted, turns, models, client, exit_code, error, lines_read, user_input,
                    messages, response_text, response, consumed, received, poll_count,
                    markers, slept, retrieve_arg, calls, request, pre_messages, pre_previous_response_id >>

NextExtract == ReplyReceived

SpecExtract == InitExtract /\ [][NextExtract]_vars

(***************************************************************************)
(* A background non-streaming session on its own, with the fairness of a   *)
(* sequential process: once the loop test has failed, nothing but the      *)
(* process itself decides when the final status is handled, and it does so *)
(* without waiting for anything.                                           *)
(***************************************************************************)
InitBackground ==
    /\ Init
    /\ argv = [command |-> "chat", no_stream |-> TRUE, completions |-> FALSE,
               background |-> TRUE, system |-> DefaultSystem]
    /\ environ = [OPENAI_API_KEY |-> PyStr(<<"k">>), OPENAI_BASE_URL |-> PyStr(<<"k">>)]

NextBackground ==
    \/ Chat
    \/ ResponsesReadLine
    \/ ResponsesCreate
    \/ ResponsesPoll
    \/ ResponsesPollDone
    \/ EndOfInput
    \/ Interrupt

SpecBackground ==
    InitBackground /\ [][NextBackground]_vars /\ WF_vars(ResponsesPollDone)

(***************************************************************************)
(* The same background session with a poll loop long enough to print more  *)
(* than one progress marker.                                               *)
(***************************************************************************)
ResponsesPollLong == ResponsesPollUpTo(MaxMarkedPolls)

NextMarkers ==
    \/ Chat
    \/ ResponsesReadLine
    \/ ResponsesCreate
    \/ ResponsesPollLong
    \/ ResponsesPollDone
    \/ EndOfInput
    \/ Interrupt

SpecMarkers == InitBackground /\ [][NextMarkers]_vars

(***************************************************************************)
(* Properties.                                                             *)
(***************************************************************************)
InCompletions == argv.command = "chat" /\ argv.completions

InResponses == argv.command = "chat" /\ ~argv.completions

\* a step that read one line at the prompt
ReadStep == lines_read' = lines_read + 1

\* a step that issued the create call of a turn
CreateStep == calls'.create = calls.create + 1

NoCalls == [create |-> 0, retrieve |-> 0, list |-> 0]

\* text equals cmd up to the case of its letters
SameIgnoringCase(text, cmd) ==
    /\ Len(text) = Len(cmd)
    /\ \A i \in 1..Len(cmd) :
          \/ text[i] = cmd[i]
          \/ \E k \in 1..Len(UpperAlphabet) :
                UpperAlphabet[k] = text[i] /\ LowerAlphabet[k] = cmd[i]

IsExitInput(text) ==
    \E cmd \in { <<"/", "q", "u", "i", "t">>, <<"/", "q">>,
                 <<"/", "e", "x", "i", "t">>, <<"/", "e">> } :
       SameIgnoringCase(text, cmd)

IsStatusInput(text) == SameIgnoringCase(text, <<"/", "s", "t", "a", "t", "u", "s">>)

\* the last turn ended without an exception and nothing was typed since
TurnSucceeded ==
    /\ pc = "prompt"
    /\ echoed \in {"reply", "[Background task failed]",
                   "[Background task was cancelled]", "[Unexpected status]"}

\* C1: in completions mode, after a turn whose chat-completion call failed (at
\* the call or at a chunk of the stream) the message list is the list the turn
\* started from, and the loop is back at the prompt, not terminated.
C1_FailedTurnRolledBack ==
    (InCompletions /\ echoed = "Error")
        => (pc = "prompt" /\ exit_code = -1 /\ messages = pre_messages)

\* a failed streaming turn that had already received text, after earlier history
C1_Witness ==
    /\ InCompletions /\ ~argv.no_stream
    /\ echoed = "Error"
    /\ response_text # <<>>
    /\ Len(pre_messages) >= 3
    /\ messages = pre_messages

\* C2: in responses mode, after a turn in which an exception was raised (by
\* create, by the stream, by a retrieve or by text extraction), in any request
\* shape, previous_response_id is what it was before the turn and the loop is
\* back at the prompt.
C2_FailedTurnKeepsPreviousId ==
    (InResponses /\ echoed = "Error")
        => (pc = "prompt" /\ exit_code = -1
            /\ previous_response_id = pre_previous_response_id)

\* a poll loop that failed on a retrieve while an earlier identifier was held
C2_Witness ==
    /\ InResponses /\ argv.background /\ argv.no_stream
    /\ echoed = "Error"
    /\ calls.retrieve > 0
    /\ Truthy(previous_response_id)
    /\ Truthy(response_id) /\ response_id # previous_response_id

\* C3: in completions mode the message list right after every /clear is
\* exactly [system message], whatever it was before.
C3_ClearLeavesSystemMessage ==
    [][(InCompletions /\ ReadStep /\ SameIgnoringCase(user_input', CLEAR_COMMAND))
          => (messages' = <<[role |-> "system", content |-> PyStr(argv.system)]>>
              /\ pc' = "prompt")]_vars

\* a /clear typed after two turns, the first of which had succeeded
C3_Witness ==
    /\ InCompletions
    /\ echoed = "Conversation cleared."
    /\ Len(pre_messages) >= 3
    /\ Len(messages) = 1

\* C4: in responses mode /clear leaves previous_response_id absent, and the
\* create request of a turn taken while no turn has succeeded since the /clear
\* carries the system message and no previous-response reference.
C4_ClearResetsContext ==
    /\ [][(InResponses /\ ReadStep /\ SameIgnoringCase(user_input', CLEAR_COMMAND))
             => previous_response_id' = PyNone]_vars
    /\ [][(InResponses /\ CreateStep /\ cleared)
             => (/\ Len(request'.input) = 2
                 /\ request'.input[1] = [role |-> "system", content |-> PyStr(argv.system)]
                 /\ request'.input[2] = [role |-> "user", content |-> PyStr(user_input)]
                 /\ request'.previous_response_id = Absent)]_vars

\* a turn started after a /clear that had dropped a held identifier
C4_Witness ==
    /\ InResponses
    /\ cleared
    /\ pc \in {"r_stream", "r_poll"}
    /\ calls.create >= 2
    /\ Len(request.input) = 2
    /\ request.previous_response_id = Absent

\* C5: every request of responses mode is one of two forms: [system, user]
\* without a previous-response reference, or [user] with one; none lacks both
\* the system message and the reference, none carries both.
C5_RequestIsOneOfTwoForms ==
    request.api = "responses"
        => \/ /\ Len(request.input) = 2
              /\ request.input[1].role = "system"
              /\ request.input[2].role = "user"
              /\ request.previous_response_id = Absent
           \/ /\ Len(request.input) = 1
              /\ request.input[1].role = "user"
              /\ request.previous_response_id # Absent

\* C6 as claimed: after every turn of responses mode that ends without an
\* exception, previous_response_id is the identifier the turn's call returned.
C6_StoredIdIsReturnedId ==
    (InResponses /\ TurnSucceeded) => previous_response_id = response_id

\* C6 as amended: after a turn that ends without an exception,
\* previous_response_id is the returned identifier in foreground non-streaming
\* mode; in background non-streaming mode it is the identifier create returned
\* when the final status is completed and its earlier value otherwise; in the
\* streaming shapes it is the identifier process_streaming_events returned (the
\* last one captured) when that is a non-empty string and its earlier value
\* otherwise.
C6_StoredIdAfterSuccessfulTurn ==
    (InResponses /\ TurnSucceeded)
        => previous_response_id =
              IF ~argv.no_stream
              THEN (IF response_id.t = "str" /\ Len(response_id.v) > 0
                    THEN response_id ELSE pre_previous_response_id)
              ELSE IF argv.background
              THEN (IF echoed = "reply" THEN response_id ELSE pre_previous_response_id)
              ELSE response_id

\* a background job that ended failed while an earlier identifier was held
C6_Witness ==
    /\ InResponses /\ argv.background /\ argv.no_stream
    /\ pc = "prompt"
    /\ echoed = "[Background task failed]"
    /\ Truthy(previous_response_id)
    /\ Truthy(response_id) /\ response_id # previous_response_id

\* C7: in both modes a line that is an exit command up to case and surrounding
\* whitespace ends the loop with the farewell, exit code 0 and no remote call;
\* reading any other line does not end the loop.
C7_ExitCommandsEndTheLoop ==
    [][(argv.command = "chat" /\ ReadStep)
          => IF IsExitInput(user_input')
             THEN /\ pc' = "done"
                  /\ echoed' = "Goodbye!"
                  /\ exit_code' = 0
                  /\ calls' = calls
             ELSE /\ pc' # "done"
                  /\ exit_code' = -1]_vars

\* the session ended by " /Exit" after a turn
C7_Witness ==
    /\ argv.command = "chat"
    /\ pc = "done"
    /\ user_input = <<"/", "E", "x", "i", "t">>
    /\ echoed = "Goodbye!"
    /\ exit_code = 0
    /\ calls.create >= 1

\* C8: in both modes /status issues no remote call, leaves the message list
\* and previous_response_id as they were, and the loop continues.
C8_StatusChangesNothing ==
    [][(argv.command = "chat" /\ ReadStep /\ IsStatusInput(user_input'))
          => (/\ calls' = calls
              /\ request' = request
              /\ messages' = messages
              /\ previous_response_id' = previous_response_id
              /\ pc' = "prompt"
              /\ exit_code' = -1)]_vars

\* "/Status" typed after a successful turn of completions mode
C8_Witness ==
    /\ InCompletions
    /\ pc = "prompt"
    /\ user_input = <<"/", "S", "t", "a", "t", "u", "s">>
    /\ echoed = "Messages in history"
    /\ Len(messages) >= 3

\* C9: chat with --completions and --background ends with a non-zero exit and
\* the message naming the Responses API, with no client created, no remote
\* call issued and no line read, whatever the other flags and the credentials.
C9_BackgroundWithCompletionsRejected ==
    (argv.command = "chat" /\ argv.completions /\ argv.background /\ pc # "start")
        => (/\ pc = "done"
            /\ exit_code > 0
            /\ error = "Background processing is only available with the Responses API"
            /\ client = FALSE
            /\ calls = NoCalls
            /\ lines_read = 0)

\* the rejection, reached with streaming on and with credentials that are missing
C9_Witness ==
    /\ argv.command = "chat" /\ argv.completions /\ argv.background
    /\ ~argv.no_stream
    /\ environ.OPENAI_API_KEY = PyNone
    /\ pc = "done"
    /\ exit_code = 1

\* C10: list-models and chat, in every mode, end with a non-zero exit, no
\* remote call and no line read when OPENAI_API_KEY or OPENAI_BASE_URL is
\* absent or empty.
C10_MissingCredentialsAbort ==
    (/\ argv.command \in {"list-models", "chat"}
     /\ \/ environ.OPENAI_API_KEY \in {PyNone, PyStr(<<>>)}
        \/ environ.OPENAI_BASE_URL \in {PyNone, PyStr(<<>>)}
     /\ pc # "start")
        => (/\ pc = "done"
            /\ exit_code > 0
            /\ error # NoError
            /\ calls = NoCalls
            /\ lines_read = 0)

\* chat in responses mode stopped by an empty base URL
C10_Witness ==
    /\ InResponses
    /\ environ.OPENAI_API_KEY = PyStr(<<"k">>)
    /\ environ.OPENAI_BASE_URL = PyStr(<<>>)
    /\ pc = "done"
    /\ error = "OPENAI_BASE_URL is required"

\* the credentials that are absent or empty in the environment
MissingVariables ==
    { v \in {"OPENAI_API_KEY", "OPENAI_BASE_URL"} : environ[v] \in {PyNone, PyStr(<<>>)} }

\* the command got as far as create_client and was stopped there
StoppedByCreateClient ==
    /\ \/ argv.command = "list-models"
       \/ argv.command = "chat" /\ ~(argv.completions /\ argv.background)
    /\ MissingVariables # {}
    /\ pc = "done"

\* C11 as stated: the error that stops a command for lack of credentials
\* names every variable that is missing and none that is present, also when
\* both are missing.
C11_ErrorNamesEveryMissingVariable ==
    StoppedByCreateClient => VariablesNamed(error) = MissingVariables

\* C11: the error that stops a command for lack of credentials names exactly
\* one variable, which is missing: OPENAI_API_KEY whenever the key is absent
\* or empty (also when the base URL is missing too), OPENAI_BASE_URL only
\* when the key is present.
C11_ErrorNamesFirstMissingVariable ==
    StoppedByCreateClient
        => (/\ VariablesNamed(error) \subseteq MissingVariables
            /\ VariablesNamed(error) =
                  IF "OPENAI_API_KEY" \in MissingVariables
                  THEN {"OPENAI_API_KEY"} ELSE {"OPENAI_BASE_URL"})

\* both credentials missing, and the error names the key alone
C11_Witness ==
    /\ StoppedByCreateClient
    /\ MissingVariables = {"OPENAI_API_KEY", "OPENAI_BASE_URL"}
    /\ VariablesNamed(error) = {"OPENAI_API_KEY"}

\* C12 as stated: when the input ends at the prompt, in either mode, the
\* command ends normally, with exit code 0 and no error.
C12_EndOfInputEndsNormally ==
    [][(pc = "prompt" /\ pc' = "done" /\ ~ReadStep /\ ~interrupted')
          => (exit_code' = 0 /\ error' = NoError)]_vars

\* the non-null contents of a sequence of chunks, first chunk first
RECURSIVE ContentOf(_)
ContentOf(chunks) ==
    IF chunks = <<>> THEN <<>>
    ELSE (IF Head(chunks).choices[1].delta.content = PyNone THEN <<>>
          ELSE Head(chunks).choices[1].delta.content.v) \o ContentOf(Tail(chunks))

\* the step that ends a completions turn without an exception
CompletionsTurnEnds ==
    /\ InCompletions
    /\ pc \in {"cc_create", "cc_stream"}
    /\ pc' = "prompt"
    /\ echoed' = "reply"

\* C13: in completions mode a turn that ends without an exception has issued
\* exactly one chat-completion call (the call is made once when the line has
\* been read, and never again in the turn) and leaves the message list of
\* the turn's start followed by the user message with the trimmed line and
\* then the assistant message with the reply; with streaming the reply is
\* the non-null content deltas concatenated in arrival order.
C13_SuccessfulTurnAddsUserThenAssistant ==
    /\ [][CompletionsTurnEnds
            => (/\ Len(messages') = Len(pre_messages) + 2
                /\ SubSeq(messages', 1, Len(pre_messages)) = pre_messages
                /\ user_input = Strip(user_input)
                /\ messages'[Len(pre_messages) + 1] =
                      [role |-> "user", content |-> PyStr(user_input)]
                /\ messages'[Len(pre_messages) + 2].role = "assistant"
                /\ IF argv.no_stream
                   THEN messages'[Len(pre_messages) + 2].content
                           \in {PyNone} \cup {PyStr(d) : d \in Deltas}
                   ELSE messages'[Len(pre_messages) + 2].content
                           = PyStr(ContentOf(received)))]_vars
    /\ [][(InCompletions /\ pc = "cc_create" /\ ~interrupted') => CreateStep]_vars
    /\ [][(InCompletions /\ calls' # calls)
            => (CreateStep /\ pc = "cc_create" /\ pc' # "cc_create")]_vars
    /\ [][(InCompletions /\ pc' = "cc_create") => ReadStep]_vars

\* a streamed reply made of two deltas, in the order they arrived, after an
\* earlier turn
C13_Witness ==
    /\ InCompletions
    /\ ~argv.no_stream
    /\ pc = "prompt"
    /\ echoed = "reply"
    /\ calls.create = 2
    /\ Len(messages) = 5
    /\ messages[4] = [role |-> "user", content |-> PyStr(<<"Q", "u", "i", "t">>)]
    /\ messages[5] = [role |-> "assistant", content |-> PyStr(<<"a", "b">>)]

\* the step that handles the final status of a background job without an
\* exception
PollLoopEnds ==
    /\ InResponses
    /\ pc = "r_poll"
    /\ pc' = "prompt"
    /\ echoed' # "Error"

\* C14: when the poll loop of a background turn ends, previous_response_id
\* becomes the job's identifier only if the final status is completed; for
\* failed, cancelled and any other status the matching notice is printed,
\* previous_response_id keeps the value it had when the turn started, and
\* the loop goes on.
C14_OnlyCompletedJobUpdatesId ==
    [][PollLoopEnds
         => (/\ exit_code' = -1
             /\ IF response.status = COMPLETED
                THEN /\ previous_response_id' = response_id
                     /\ echoed' = "reply"
                ELSE /\ previous_response_id' = previous_response_id
                     /\ previous_response_id' = pre_previous_response_id
                     /\ echoed' = (IF response.status = FAILED
                                   THEN "[Background task failed]"
                                   ELSE IF response.status = CANCELLED
                                   THEN "[Background task was cancelled]"
                                   ELSE "[Unexpected status]"))]_vars

\* a cancelled job, polled at least once, after a turn that had stored an
\* identifier: the earlier identifier is still the stored one
C14_Witness ==
    /\ InResponses /\ argv.background /\ argv.no_stream
    /\ pc = "prompt"
    /\ echoed = "[Background task was cancelled]"
    /\ calls.create = 2
    /\ calls.retrieve > 0
    /\ previous_response_id = PyStr(<<"r", "1">>)
    /\ response_id = PyStr(<<"r", "2">>)

\* where a turn is about to issue its create call
AtCreate(p) == p \in {"cc_create", "r_create"}

\* C15: in both modes the create call is issued once for each ordinary line
\* (the turn is entered only by reading a line, its first step is the create
\* call, and no other step of the turn issues one), a step that reports a
\* failure goes straight back to the prompt, and at the prompt no remote call
\* is issued: the next call needs the next line.
C15_NoRetry ==
    /\ [][(argv.command = "chat" /\ AtCreate(pc')) => (ReadStep /\ calls' = calls)]_vars
    /\ [][(argv.command = "chat" /\ AtCreate(pc) /\ ~interrupted') => CreateStep]_vars
    /\ [][(argv.command = "chat" /\ calls'.create # calls.create)
            => (AtCreate(pc) /\ CreateStep /\ ~AtCreate(pc'))]_vars
    /\ [][(argv.command = "chat" /\ echoed' = "Error" /\ pc # "prompt")
            => pc' = "prompt"]_vars
    /\ [][(argv.command = "chat" /\ pc = "prompt") => calls' = calls]_vars

\* two ordinary lines, two create calls; the second turn failed at a
\* retrieve call and the loop is back at the prompt
C15_Witness ==
    /\ InResponses
    /\ pc = "prompt"
    /\ echoed = "Error"
    /\ lines_read = 2
    /\ calls.create = 2
    /\ calls.retrieve = 1
    /\ response_id = PyStr(<<"r", "2">>)
    /\ previous_response_id = PyStr(<<"r", "1">>)

\* the listing call raised, or one of the records it returned cannot be read
ListingFailed ==
    \/ models.t = "raise"
    \/ /\ models.t = "list"
       /\ \E i \in 1..Len(models.v) : models.v[i].id = Absent

\* C16: list-models with both credentials present calls the listing endpoint
\* exactly once and no other endpoint; it ends with exit code 0 when the call
\* and the reading of its records succeed, and with the error "Failed to
\* list models" and a non-zero exit when either fails, without a second
\* call (an interrupt of the waiting process is no failure of the call and
\* ends the command on its own).  With a credential missing it ends with the
\* credential error itself and no listing call.
C16_ListModelsCallsOnce ==
    (argv.command = "list-models" /\ pc = "done")
        => (/\ calls.create = 0
            /\ calls.retrieve = 0
            /\ IF MissingVariables # {}
               THEN /\ calls.list = 0
                    /\ models = Absent
                    /\ exit_code > 0
                    /\ error \in {"OPENAI_API_KEY is required",
                                  "OPENAI_BASE_URL is required"}
               ELSE /\ calls.list = 1
                    /\ interrupted \/ models # Absent
                    /\ IF interrupted
                       THEN exit_code > 0
                       ELSE IF ListingFailed
                       THEN exit_code > 0 /\ error = "Failed to list models"
                       ELSE exit_code = 0 /\ error = NoError)

\* a listing whose second record has no id: one record printed, then the error
C16_Witness ==
    /\ argv.command = "list-models"
    /\ pc = "done"
    /\ models.t = "list"
    /\ Len(models.v) = 2
    /\ echoed = "Owner"
    /\ calls.list = 1
    /\ error = "Failed to list models"
    /\ exit_code = 1

\* C17: info ends with exit code 0 after printing its fixed text, the same
\* in every environment (credentials present, empty or absent), without
\* creating a client, issuing a remote call or reading a line.
C17_InfoIgnoresEnvironment ==
    (argv.command = "info" /\ pc # "start")
        => (/\ pc = "done"
            /\ echoed = "Amazon Bedrock Mantle - OpenAI-Compatible APIs"
            /\ exit_code = 0
            /\ error = NoError
            /\ client = FALSE
            /\ models = Absent
            /\ calls = NoCalls
            /\ request = NoRequest
            /\ lines_read = 0)

\* info has run with no API key and an empty base URL
C17_Witness ==
    /\ argv.command = "info"
    /\ environ.OPENAI_API_KEY = PyNone
    /\ environ.OPENAI_BASE_URL = PyStr(<<>>)
    /\ pc = "done"
    /\ exit_code = 0
    /\ echoed = "Amazon Bedrock Mantle - OpenAI-Compatible APIs"

\* an output-text-delta event that carries its payload
IsDeltaEvent(e) == e.type = TYPE_DELTA /\ e.delta # Absent

\* a completed event that carries the identifier of its response
IsCompletedEvent(e) ==
    e.type = TYPE_COMPLETED /\ e.response # Absent /\ e.response.v.id # Absent

\* the fallback shapes: no type, and a delta; no type, no delta, and an id
IsBareDelta(e) == e.type = Absent /\ e.delta # Absent

IsBareId(e) == e.type = Absent /\ e.delta = Absent /\ e.id # Absent

\* the payloads of the events of a sequence that are in a set, first
\* event first
RECURSIVE PayloadsOf(_, _)
PayloadsOf(events, sources) ==
    IF events = <<>> THEN <<>>
    ELSE (IF Head(events) \in sources THEN Head(events).delta.v ELSE <<>>)
            \o PayloadsOf(Tail(events), sources)

\* the identifier of the last event of a sequence that is in a set,
\* None when there is none
LastIdOf(events, sources) ==
    LET carriers == { i \in 1..Len(events) : events[i] \in sources } IN
    IF carriers = {} THEN PyNone
    ELSE LET last == CHOOSE i \in carriers : \A j \in carriers : j <= i IN
         IF events[last].type = Absent THEN events[last].id
         ELSE events[last].response.v.id

\* a step of the loop of process_streaming_events that took one event
EventStep ==
    /\ InResponses
    /\ pc = "r_stream"
    /\ Len(received') = Len(received) + 1

\* the event taken by such a step
NewEvent == received'[Len(received')]

\* the events are taken one at a time, in order, and taking one never ends
\* the loop
EventsTakenInOrder ==
    [][EventStep => (/\ pc' = "r_stream"
                     /\ consumed' = consumed + 1
                     /\ consumed' = Len(received')
                     /\ SubSeq(received', 1, Len(received)) = received)]_vars

\* C18 as stated: while a stream is processed the text is the payloads of
\* the output-text-delta events received so far, in arrival order, and the
\* identifier is the one of the last completed event, None if there was none.
C18_TextAndIdFromTypedEvents ==
    (InResponses /\ pc = "r_stream")
        => (/\ response_text = PayloadsOf(received, {e \in Events : IsDeltaEvent(e)})
            /\ response_id = LastIdOf(received, {e \in Events : IsCompletedEvent(e)}))

IsTextSource(e) == IsDeltaEvent(e) \/ IsBareDelta(e)

IsIdSource(e) == IsCompletedEvent(e) \/ IsBareId(e)

\* C18: process_streaming_events takes the events one at a time in arrival
\* order and an event never ends the loop; at every point the text is the
\* concatenation, in arrival order, of the payloads of the output-text-delta
\* events and of the events without a type that carry a delta, and the
\* identifier is the one of the last completed event carrying a response id
\* or event without type and delta carrying an id, None if there was none.
\* Every other event (queued and in_progress among them) changes neither.
C18_TextAndIdFromStream ==
    /\ EventsTakenInOrder
    /\ [](( InResponses /\ pc = "r_stream")
            => (/\ response_text = PayloadsOf(received, {e \in Events : IsTextSource(e)})
                /\ response_id = LastIdOf(received, {e \in Events : IsIdSource(e)})))
    /\ [][(EventStep /\ ~IsTextSource(NewEvent) /\ ~IsIdSource(NewEvent))
            => UNCHANGED << response_text, response_id >>]_vars

\* a typed delta, then a delta on an event without type: both are in the text
C18_Witness ==
    /\ InResponses
    /\ pc = "r_stream"
    /\ Len(received) = 2
    /\ IsDeltaEvent(received[1])
    /\ IsBareDelta(received[2])
    /\ response_text = <<"a", "b">>

\* C19 as stated: an event that carries a delta has it added to the text and
\* printed, and an event that carries an id has it captured, whatever else
\* the event carries.
C19_AnyDeltaAndAnyIdAreTaken ==
    [][EventStep
         => (/\ NewEvent.delta # Absent
                   => (/\ response_text' = response_text \o NewEvent.delta.v
                       /\ echoed' = "delta")
             /\ NewEvent.id # Absent => response_id' = NewEvent.id)]_vars

\* C19: an event without a type attribute that carries a delta has it
\* printed and added to the text, and nothing else happens for it, even if
\* it carries an id as well; an event with neither type nor delta that
\* carries an id has the id captured.  An event with a type attribute is
\* handled by its type alone: its top-level id is never captured, and its
\* delta is taken only when the type is output_text.delta.
C19_FallbackOnlyWithoutType ==
    [][EventStep
         => (/\ IsBareDelta(NewEvent)
                   => (/\ response_text' = response_text \o NewEvent.delta.v
                       /\ echoed' = "delta"
                       /\ response_id' = response_id)
             /\ IsBareId(NewEvent)
                   => (/\ response_id' = NewEvent.id
                       /\ response_text' = response_text)
             /\ (NewEvent.type # Absent /\ NewEvent.type # TYPE_DELTA)
                   => response_text' = response_text
             /\ (NewEvent.type # Absent /\ NewEvent.type # TYPE_COMPLETED)
                   => response_id' = response_id
             /\ (NewEvent.type = TYPE_COMPLETED /\ ~IsCompletedEvent(NewEvent))
                   => response_id' = response_id)]_vars

\* after a typed delta, an event of another type carrying a delta and an id
\* has been taken: neither its delta nor its id was used
C19_Witness ==
    /\ InResponses
    /\ pc = "r_stream"
    /\ Len(received) = 2
    /\ IsDeltaEvent(received[1])
    /\ received[2] = Event(TYPE_OTHER, PyStr(<<"b">>), Absent, PyStr(<<"r", "2">>))
    /\ response_text = <<"a">>
    /\ response_id = PyNone

\* the parts of an output item's content that carry a text
HasText(part) == part.text # Absent

FragmentsOfItem(item) ==
    IF item.content.t = "list" THEN SelectSeq(item.content.v, HasText) ELSE <<>>

\* the fragments of the first n output items, in order
RECURSIVE FragmentsUpTo(_, _)
FragmentsUpTo(items, n) ==
    IF n = 0 THEN <<>>
    ELSE FragmentsUpTo(items, n - 1) \o FragmentsOfItem(items[n])

\* the texts of the first n fragments, one after the other
RECURSIVE TextUpTo(_, _)
TextUpTo(fragments, n) ==
    IF n = 0 THEN <<>>
    ELSE TextUpTo(fragments, n - 1) \o fragments[n].text.v

\* the text fragments of a response's output (none when output is not a list)
FragmentsOf(resp) ==
    IF resp.output.t = "list" THEN FragmentsUpTo(resp.output.v, Len(resp.output.v))
    ELSE <<>>

\* the output cannot be read: an item has a content that is neither a list
\* nor a string, or a fragment has a text that is not a string
IsUnreadable(resp) ==
    /\ resp.output.t = "list"
    /\ \/ \E i \in 1..Len(resp.output.v) :
            resp.output.v[i].content.t \in {"None", "object"}
       \/ \E i \in 1..Len(FragmentsOf(resp)) : FragmentsOf(resp)[i].text.t # "str"

\* the extraction gave this text and the turn printed it
Extracted(text) == extracted = text /\ echoed = "reply"

\* the extraction raised: the turn prints an error, stores no identifier and
\* the loop goes on
ExtractionRaised ==
    /\ extracted = Raised
    /\ echoed = "Error"
    /\ exit_code = -1
    /\ previous_response_id = pre_previous_response_id

\* the string conversion of output: "None", "[]", or a bracketed list
ExtractedConversion ==
    /\ Extracted(StrOf(response.output))
    /\ response.output = PyNone => extracted = PyStr(<<"N", "o", "n", "e">>)
    /\ response.output = PyList(<<>>) => extracted = PyStr(<<"[", "]">>)
    /\ response.output.t = "list"
          => (/\ Head(extracted.v) = "["
              /\ extracted.v[Len(extracted.v)] = "]")

    /\ echoed = "Error"
    /\ previous_response_id = PyNone

\* a status that keeps the poll loop going
IsPending(status) == status = QUEUED \/ status = IN_PROGRESS

\* C21: in a background non-streaming turn the identifier used for polling
\* is the one the create call returned and does not change while polling;
\* a retrieve call is made only in the poll loop while the latest status is
\* queued or in_progress, one at a time, after one sleep of one second and
\* for that identifier; while the latest status is queued or in_progress
\* the next step is such a poll, and at the first status outside the two
\* the loop is left for the prompt without a further call.
C21_PollLoop ==
    /\ [][(InResponses /\ pc # "r_poll" /\ pc' = "r_poll")
            => (/\ CreateStep
                /\ response_id' = response'.id
                /\ calls'.retrieve = calls.retrieve
                /\ slept' = 0)]_vars
    /\ [][(InResponses /\ pc = "r_poll" /\ pc' = "r_poll")
            => response_id' = response_id]_vars
    /\ [][(InResponses /\ calls'.retrieve # calls.retrieve)
            => (/\ pc = "r_poll"
                /\ IsPending(response.status)
                /\ calls'.retrieve = calls.retrieve + 1
                /\ slept' = slept + 1
                /\ retrieve_arg' = response_id)]_vars
    /\ [][(InResponses /\ pc = "r_poll" /\ IsPending(response.status) /\ ~interrupted')
            => calls'.retrieve = calls.retrieve + 1]_vars
    /\ [][(InResponses /\ pc = "r_poll" /\ ~IsPending(response.status) /\ ~interrupted')
            => (calls' = calls /\ slept' = slept /\ pc' = "prompt")]_vars

\* two polls answered under another identifier than the job's, the second
\* with a final status: both retrieves were for the job's identifier
C21_Witness ==
    /\ InResponses
    /\ pc = "r_poll"
    /\ poll_count = 2
    /\ slept = 2
    /\ calls.retrieve = 2
    /\ response.status = FAILED
    /\ response.id = PyStr(<<"r", "2">>)
    /\ response_id = PyStr(<<"r", "1">>)
    /\ retrieve_arg = PyStr(<<"r", "1">>)

\* C22: in a background non-streaming turn, once a status outside queued and
\* in_progress has been observed the loop ends and the session comes back to
\* the prompt; while the latest status is queued or in_progress the loop is
\* left only by an exception of the retrieve call, never by a limit or a
\* timeout, and (below the bound of this model) the next poll is possible.
C22_PollLoopEndsOnlyOnFinalStatus ==
    /\ [](( pc = "r_poll" /\ ~IsPending(response.status))
            => <>(pc = "prompt" \/ interrupted))
    /\ [][(pc = "r_poll" /\ IsPending(response.status) /\ pc' # "r_poll" /\ ~interrupted')
            => (calls'.retrieve = calls.retrieve + 1 /\ echoed' = "Error")]_vars
    /\ []((pc = "r_poll" /\ IsPending(response.status) /\ poll_count < MaxPolls)
            => ENABLED ResponsesPoll)

\* back at the prompt after a job that was polled four times before it
\* reported its failure
C22_Witness ==
    /\ pc = "prompt"
    /\ argv.background /\ argv.no_stream
    /\ poll_count = 4
    /\ calls.retrieve = 4
    /\ echoed = "[Background task failed]"

\* C23 as stated: once an interrupt has arrived in a chat session, wherever
\* it arrived, the session has ended with the farewell, exit code 0 and no
\* error.
C23_InterruptEndsWithFarewell ==
    (argv.command = "chat" /\ interrupted)
        => (/\ pc = "done"
            /\ echoed = "Chat session ended."
            /\ exit_code = 0
            /\ error = NoError)

\* C24: in responses mode every create request is a Responses API request
\* flagged background exactly when --background was given and streaming
\* exactly when --no-stream was not given.  A streaming session never
\* polls, and with or without --background its text and identifier are the
\* same function of the events received, and at the end of the stream the
\* captured identifier becomes previous_response_id when it is a non-empty
\* value and previous_response_id is left alone otherwise.
C24_RequestShapeFollowsFlags ==
    /\ []((InResponses /\ request # NoRequest)
            => (/\ request.api = "responses"
                /\ request.background = argv.background
                /\ request.stream = ~argv.no_stream))
    /\ []((InResponses /\ ~argv.no_stream)
            => (/\ calls.retrieve = 0
                /\ pc # "r_poll"
                /\ pc = "r_stream"
                      => (/\ response_text =
                                PayloadsOf(received, {e \in Events : IsTextSource(e)})
                          /\ response_id =
                                LastIdOf(received, {e \in Events : IsIdSource(e)}))))
    /\ [][(InResponses /\ pc = "r_stream" /\ pc' = "prompt" /\ echoed' = "reply")
            => previous_response_id' =
                  (IF response_id.t = "str" /\ response_id.v # <<>>
                   THEN response_id ELSE previous_response_id)]_vars

\* second turn of a session with --background and streaming: both requests
\* went out flagged background and streaming, and the stream's identifier
\* has been stored
C24_Witness ==
    /\ InResponses
    /\ argv.background /\ ~argv.no_stream
    /\ pc = "prompt"
    /\ echoed = "reply"
    /\ calls.create = 2
    /\ request.background /\ request.stream
    /\ response_text = <<"a">>
    /\ previous_response_id = PyStr(<<"r", "1">>)
    /\ request.previous_response_id = PyStr(<<"r", "2">>)

\* the completions loop has been entered (the client exists)
InCompletionsLoop == InCompletions /\ client = TRUE

\* C25: in completions mode, in every state from the entry into the loop on
\* (at the prompt, during a call or a stream, after a rollback, after the
\* end of the session), the message list is not empty and its first element
\* is the system message with the system prompt of the session.
C25_SystemMessageStaysFirst ==
    InCompletionsLoop
        => (/\ Len(messages) >= 1
            /\ messages[1] = [role |-> "system", content |-> PyStr(argv.system)])

\* the first turn of a session failed and was rolled back: the system
\* message is what is left
C25_Witness ==
    /\ InCompletionsLoop
    /\ pc = "prompt"
    /\ echoed = "Error"
    /\ calls.create = 1
    /\ pre_messages = messages
    /\ messages = <<[role |-> "system", content |-> PyStr(argv.system)]>>

\* C27: in completions mode, whenever the loop waits for input the message
\* list has odd length and is the system message followed by (user,
\* assistant) pairs in that order, so no two neighbours have the same role.
C27_HistoryAlternatesAtPrompt ==
    (InCompletionsLoop /\ pc = "prompt")
        => (/\ Len(messages) % 2 = 1
            /\ messages[1].role = "system"
            /\ \A i \in 2..Len(messages) :
                  messages[i].role = (IF i % 2 = 0 THEN "user" ELSE "assistant")
            /\ \A i \in 1..(Len(messages) - 1) : messages[i].role # messages[i + 1].role)

\* a successful turn, then a failed one, then /status: one pair after the
\* system message
C27_Witness ==
    /\ InCompletionsLoop
    /\ pc = "prompt"
    /\ lines_read = 3
    /\ calls.create = 2
    /\ echoed = "Messages in history"
    /\ Len(messages) = 3
    /\ messages[2].role = "user"
    /\ messages[3].role = "assistant"

\* C26: in both modes a line that is empty once trimmed changes nothing: no
\* remote call, no request, nothing printed but the next prompt, the message
\* list and previous_response_id as they were, and the loop is at the prompt
\* again.
C26_EmptyLineIsNoOp ==
    [][(argv.command = "chat" /\ pc = "prompt" /\ ReadStep /\ user_input' = <<>>)
         => (/\ pc' = "prompt"
             /\ exit_code' = -1
             /\ calls' = calls
             /\ request' = request
             /\ echoed' = "You: "
             /\ messages' = messages
             /\ previous_response_id' = previous_response_id)]_vars

\* responses mode: a successful turn, then a blank line; the stored
\* identifier is still there
C26_Witness ==
    /\ InResponses
    /\ pc = "prompt"
    /\ lines_read = 2
    /\ user_input = <<>>
    /\ calls.create = 1
    /\ echoed = "You: "
    /\ previous_response_id = PyStr(<<"r", "1">>)

\* C29: in background non-streaming mode, after n polls of a turn exactly
\* floor(n/5) progress markers have been printed (one on each of the polls
\* number 5, 10, ..., where it is the last output when the retrieve of that
\* poll returns, and none on any other poll), and every turn starts its poll loop at counter 0
\* with no marker printed.
C29_MarkerEveryFifthPoll ==
    /\ [](pc = "r_poll" => markers = poll_count \div 5)
    /\ [][(pc = "r_poll" /\ pc' = "r_poll")
            => /\ poll_count' = poll_count + 1
               /\ (markers' = markers + 1) = (poll_count' \in {5 * k : k \in 1..MaxMarkedPolls})
               /\ (markers' = markers + 1) => echoed' = "."
               /\ markers' \in {markers, markers + 1}]_vars
    /\ [][(pc # "r_poll" /\ pc' = "r_poll") => (poll_count' = 0 /\ markers' = 0)]_vars

\* a second turn of the session has printed its second marker on poll 10
C29_Witness ==
    /\ pc = "r_poll"
    /\ lines_read >= 2
    /\ previous_response_id # PyNone
    /\ poll_count = 10
    /\ markers = 2
    /\ echoed = "."

\* the (user, assistant) messages of a sequence of completed turns, in order
RECURSIVE PairsOf(_)
PairsOf(ts) ==
    IF ts = <<>> THEN <<>>
    ELSE << [role |-> "user", content |-> PyStr(ts[1].user)],
            [role |-> "assistant", content |-> ts[1].reply] >> \o PairsOf(Tail(ts))

\* the history the claim prescribes for a request that carries `line`
ExpectedHistory(line) ==
    << [role |-> "system", content |-> PyStr(argv.system)] >>
        \o PairsOf(turns)
        \o << [role |-> "user", content |-> PyStr(line)] >>

\* C28: in completions mode, whatever successful turns, failed turns, /status
\* and /clear came before, every chat-completion call sends the system
\* message, then the (user, assistant) pair of every successful turn since
\* the latest /clear in order, then the current user line; and at every
\* prompt the kept history is the system message and those pairs only, so
\* failed turns and commands leave nothing for a later request.
C28_RequestCarriesSuccessfulTurns ==
    /\ [][(InCompletions /\ CreateStep)
            => /\ request'.api = "chat.completions"
               /\ request'.input = ExpectedHistory(user_input)]_vars
    /\ []((InCompletionsLoop /\ pc = "prompt")
            => Append(messages, [role |-> "user", content |-> PyStr(<<>>)])
                 = ExpectedHistory(<<>>))

\* the third line of a session is sent after one successful and one failed
\* turn: the request carries the one pair and the current line
C28_Witness ==
    /\ InCompletionsLoop
    /\ pc \in {"prompt", "cc_stream"}
    /\ lines_read = 3
    /\ calls.create = 3
    /\ Len(turns) = 1
    /\ turns[1].reply = PyStr(<<"a">>)
    /\ Len(request.input) = 4
    /\ request.input[2].content = PyStr(turns[1].user)
    /\ request.input[3] = [role |-> "assistant", content |-> PyStr(<<"a">>)]
    /\ request.input[4] = [role |-> "user", content |-> PyStr(user_input)]

====
